---- MODULE Spec2Model ----
(***************************************************************************)
(* Engagement simulation core of spear-fly: the Scenario state machine     *)
(* (advanceSimulationTimeStep, resetScenario, engagementResult) and the    *)
(* QuadTree spatial index.                                                 *)
(*                                                                         *)
(* Fixed-point conventions.  The program computes in IEEE doubles; the     *)
(* model computes in integers:                                             *)
(*   - lengths are in units of 100 m (the program's km times 10),          *)
(*   - times are in whole seconds,                                         *)
(*   - angles are in whole degrees, sines and cosines are scaled by 1000.  *)
(* A JavaScript object that is shared by reference is modelled as one cell *)
(* of a heap (pos): whoever holds the reference names the cell.            *)
(***************************************************************************)
EXTENDS Integers, Sequences, FiniteSets, TLC

VARIABLES
    scenario,                 \* the IScenario and the two platform configs (never written)
    timeStep,                 \* Scenario.timeStep
    timeElapsed,              \* Scenario.timeElapsed
    isEngagementComplete,     \* Scenario.isEngagementComplete
    pos,                      \* heap of position objects: pos.sam, pos.fighter
    samState,                 \* samSystem.state
    trackingStatus,           \* samSystem.trackingStatus
    samStatus,                \* samSystem.status
    fighterState,             \* fighter.state
    fighterHeading,           \* fighter.heading
    fighterMissilesRemaining, \* fighter.missilesRemaining
    missiles,                 \* Scenario.missiles
    lastCall,                 \* what the last call was, what it returned, what it saw
    calls,                    \* advanceSimulationTimeStep calls since create / resetScenario
    resets,                   \* resetScenario calls so far
    tree,                     \* QuadTree nodes, keyed by their path from the root
    capacity,                 \* QuadTree.capacity
    inserts,                  \* log of the QuadTree.insert calls: point, data, result
    cells,                    \* SyntheticPrecipitationField.cells
    sample,                   \* the last sampleRainRate call: x, y, result
    call,                     \* the last call of a method that reads only its arguments
    radar,                    \* Radar.ituData and Radar.imageData: "null" or "loaded"
    snapshot,                 \* the object the last getState() returned, as its holder has it now
    polls,                    \* getState calls so far
    controller,               \* SimulationController: simulationKey, scenarioMeta, scenario
    clientHasKey,             \* per client: has a response handed it the simulationKey
    lastRequest,              \* the last HTTP request and the status it was answered with
    requests                  \* HTTP requests handled so far

scenarioVars ==
    <<scenario, timeStep, timeElapsed, isEngagementComplete, pos, samState,
      trackingStatus, samStatus, fighterState, fighterHeading,
      fighterMissilesRemaining, missiles, lastCall, calls, resets>>

quadVars == <<tree, capacity, inserts>>

fieldVars == <<cells, sample>>

libVars == <<call, radar>>

\* what the Scenario's calls leave alone
pollVars == <<snapshot, polls>>

\* the HTTP layer
controllerVars == <<controller, clientHasKey, lastRequest, requests>>

\* what the Scenario's stepping calls leave alone
componentVars == <<quadVars, fieldVars, libVars, pollVars, controllerVars>>

vars == <<scenarioVars, componentVars>>

----------------------------------------------------------------------------
(* Bounds of the model *)

MaxCalls == 7      \* advanceSimulationTimeStep calls explored per run
MaxResets == 1      \* resetScenario calls explored
MaxInserts == 3     \* QuadTree.insert calls explored

----------------------------------------------------------------------------
(* Arithmetic helpers *)

Abs(a) == IF a < 0 THEN -a ELSE a

\* a / b rounded to the nearest integer, halves away from zero (b > 0)
RoundDiv(a, b) ==
    IF a >= 0 THEN (2 * a + b) \div (2 * b) ELSE -((2 * (-a) + b) \div (2 * b))

RECURSIVE CeilSqrtSearch(_, _, _)
CeilSqrtSearch(n, lo, hi) ==
    IF lo >= hi THEN lo
    ELSE LET mid == (lo + hi) \div 2
         IN IF mid * mid >= n THEN CeilSqrtSearch(n, lo, mid)
            ELSE CeilSqrtSearch(n, mid + 1, hi)

\* Math.sqrt rounded up to a whole unit: for integers n and k,
\* CeilSqrt(n) <= k  iff  sqrt(n) <= k, and k < CeilSqrt(n)  iff  k < sqrt(n).
CeilSqrt(n) == CeilSqrtSearch(n, 0, 46340)

\* the r with r^k = n, for n a perfect k-th power (Math.sqrt, Math.pow(x, 0.25))
IntRoot(n, k) ==
    CHOOSE r \in 0..n : (IF k = 2 THEN r * r ELSE r * r * r * r) = n

SinTab ==
  << 0, 17, 35, 52, 70, 87, 105, 122, 139, 156, 174, 191, 208,
     225, 242, 259, 276, 292, 309, 326, 342, 358, 375, 391, 407, 423,
     438, 454, 469, 485, 500, 515, 530, 545, 559, 574, 588, 602, 616,
     629, 643, 656, 669, 682, 695, 707, 719, 731, 743, 755, 766, 777,
     788, 799, 809, 819, 829, 839, 848, 857, 866, 875, 883, 891, 899,
     906, 914, 921, 927, 934, 940, 946, 951, 956, 961, 966, 970, 974,
     978, 982, 985, 988, 990, 993, 995, 996, 998, 999, 999, 1000, 1000 >>

\* 1000 * Math.sin(deg * PI / 180), deg any whole number of degrees
Sin1000(deg) ==
    LET m == deg % 360
    IN IF m <= 90 THEN SinTab[m + 1]
       ELSE IF m <= 180 THEN SinTab[180 - m + 1]
       ELSE IF m <= 270 THEN -SinTab[m - 180 + 1]
       ELSE -SinTab[360 - m + 1]

\* 1000 * Math.cos(deg * PI / 180)
Cos1000(deg) == Sin1000(deg + 90)

\* Math.atan2(dy, dx) * 180 / Math.PI, cut to whole degrees, in [-180, 180]
Atan2Deg(dy, dx) ==
    LET ax == Abs(dx)
        ay == Abs(dy)
        a0 == Cardinality({a \in 1..90 : ay * Cos1000(a) - ax * Sin1000(a) >= 0})
    IN IF dx = 0 /\ dy = 0 THEN 0
       ELSE IF dx >= 0 /\ dy >= 0 THEN a0
       ELSE IF dx < 0 /\ dy >= 0 THEN 180 - a0
       ELSE IF dx < 0 THEN a0 - 180
       ELSE -a0

\* JavaScript's a % b: the result has the sign of a
JsMod(a, b) == IF a >= 0 THEN a % b ELSE -((-a) % b)

----------------------------------------------------------------------------
(* Program constants *)

MAX_SIMULATION_TIME == 600   \* seconds
SpeedOfSound == 343          \* m/s
NumAzimuths == 360           \* entries of samSystem.getRangesAzimuth()

\* missile heading jitter when the SAM is not tracking: (Math.random()*2 - 1) * 5
\* degrees, sampled at both ends and the middle of the interval
JitterDeg == {-5, 0, 4}

Point(x, y) == [x |-> x, y |-> y]

----------------------------------------------------------------------------
(* Fighter *)

\* Mach -> length units per second: (mach * speedOfSound) / 1000 km/s
MachToVelocity(mach) == (mach * SpeedOfSound) \div 100

GetRCSAtAspect(rcs, azimuthDeg) ==
    LET angle == (JsMod(azimuthDeg, 360) + 360) % 360
    IN IF angle < 30 \/ angle > 330 THEN rcs.nose
       ELSE IF angle > 150 /\ angle < 210 THEN rcs.tail
       ELSE rcs.side

GetAzimuthFromSAM(fighterPos, samPosition) ==
    Atan2Deg(fighterPos.y - samPosition.y, fighterPos.x - samPosition.x)

GetRCSFromPosition(rcs, fighterPos, observerPos, fighterHeadingDeg) ==
    LET angleToObserver ==
            Atan2Deg(observerPos.y - fighterPos.y, observerPos.x - fighterPos.x)
    IN GetRCSAtAspect(rcs, angleToObserver - fighterHeadingDeg)

\* mutant: the tracking status not consulted
ShouldLaunchHARMUntracked(harmRange, distanceToSAM, samMEMR, samTracking) ==
    IF distanceToSAM <= samMEMR /\ harmRange < distanceToSAM
    THEN "true" ELSE "false"

\* "true", "false", or "undefined" when the SAM is not tracking (no return)
ShouldLaunchHARM(harmRange, distanceToSAM, samMEMR, samTracking) ==
    IF samTracking
    THEN IF distanceToSAM <= samMEMR /\ harmRange < distanceToSAM
         THEN "true" ELSE "false"
    ELSE "undefined"

\* JavaScript truthiness of ShouldLaunchHARM's result
Truthy(v) == v = "true"

----------------------------------------------------------------------------
(* Radar and SAMSystem *)

\* Radar.calculateDetectionRange for a coherent radar and perfect powers:
\* range * (sqrt(pulses))^0.25 * rcs^0.25
CalculateDetectionRange(rcs, pulses, range) ==
    range * IntRoot(IntRoot(pulses, 2), 4) * IntRoot(rcs, 4)

\* samSystem.getRangesAzimuth(): one nominal range per azimuth step
GetRangesAzimuth(sc) == [i \in 1..NumAzimuths |-> sc.nominalRange]

IsWithinMEMR(sc, distance) == distance <= sc.memr

----------------------------------------------------------------------------
(* Scenario: queries *)

GetDistanceSAMToFighter(p) ==
    LET dx == p.fighter.x - p.sam.x
        dy == p.fighter.y - p.sam.y
    IN CeilSqrt(dx * dx + dy * dy)

GetAzimuthSAMToFighter(p) ==
    Atan2Deg(p.fighter.y - p.sam.y, p.fighter.x - p.sam.x)

GetFighterRCSFromSAM(sc, p, heading) ==
    GetRCSFromPosition(sc.rcs, p.fighter, p.sam, heading)

\* fighterDetect(true).  nan: the azimuth index is negative, azimuths[index] is
\* undefined and the detection range computed from it is NaN.
FighterDetect(sc, p) ==
    LET azimuthDeg == GetAzimuthFromSAM(p.fighter, p.sam)
        azimuths == GetRangesAzimuth(sc)
        numAzimuths == Len(azimuths)
        \* Math.round(((azimuthDeg % 360) / 360) * numAzimuths) % numAzimuths
        azimuthIndex ==
            JsMod(RoundDiv(JsMod(azimuthDeg, 360) * numAzimuths, 360), numAzimuths)
        rcs == GetRCSAtAspect(sc.rcs, azimuthDeg)
    IN IF azimuthIndex < 0
       THEN [nan |-> TRUE, range |-> 0]
       ELSE [nan |-> FALSE,
             range |-> CalculateDetectionRange(rcs, sc.numPulses,
                                               azimuths[azimuthIndex + 1])]

IsFighterDetected(sc, p) ==
    LET distance == GetDistanceSAMToFighter(p)
        detectionRange == FighterDetect(sc, p)
    IN ~detectionRange.nan /\ distance <= detectionRange.range

IsFighterWithinMEMR(sc, p) == IsWithinMEMR(sc, GetDistanceSAMToFighter(p))

ShouldFighterLaunchHARM(sc, p, tracking) ==
    ShouldLaunchHARM(sc.harmRange, GetDistanceSAMToFighter(p), sc.memr,
                     tracking.status = "tracking")

\* missile.position and missile.target are references: position names the cell
\* of pos the missile shares with its launcher, target names the platform
CreateMissile(position, velocity, heading, launchedBy, timeOfLaunch, target, maxRange) ==
    [position |-> position, velocity |-> velocity, heading |-> heading,
     status |-> "active", launchedBy |-> launchedBy, timeOfLaunch |-> timeOfLaunch,
     timeOfImpact |-> 0, target |-> target, maxRange |-> maxRange]

\* checkMissileIntercept.  With m the step vector and t the vector to the target,
\* the distance from the target to its projection on the path is |t x m| / |m|;
\* a zero-length step divides 0 by 0 and every comparison with NaN is false.
\* killRadius is 0.02 km for a SAM missile and 0.05 km for a HARM: 1/5 and 1/2 unit.
CheckMissileIntercept(missilePos, launchedBy, targetPos, previousMissilePos) ==
    LET mx == missilePos.x - previousMissilePos.x
        my == missilePos.y - previousMissilePos.y
        tx == targetPos.x - previousMissilePos.x
        ty == targetPos.y - previousMissilePos.y
        magM2 == mx * mx + my * my
        cross == tx * my - ty * mx
        radiusNum == 1
        radiusDen == IF launchedBy = "sam" THEN 5 ELSE 2
    IN IF magM2 = 0 THEN FALSE
       ELSE cross * cross * radiusDen * radiusDen <= radiusNum * radiusNum * magM2

\* mutant: success with the opposite polarity
EngagementResultInverted ==
    [missileResults |-> <<>>,
     success |-> IF samState = "destroyed" THEN TRUE ELSE FALSE]

EngagementResult ==
    [missileResults |->
        [i \in 1..Len(missiles) |->
            [launchedBy |-> missiles[i].launchedBy,
             launchTime |-> missiles[i].timeOfLaunch,
             timeOfImpact |-> IF missiles[i].status = "kill"
                              THEN <<missiles[i].timeOfImpact>> ELSE <<>>,
             impactPosition |-> IF missiles[i].status = "kill"
                                THEN <<pos[missiles[i].target]>> ELSE <<>>,
             status |-> missiles[i].status]],
     success |-> IF samState = "destroyed" THEN FALSE ELSE TRUE]

----------------------------------------------------------------------------
(* Scenario: advanceSimulationTimeStep, one loop at a time *)

\* maxTurnRate * timeStep in degrees: maxTurnRate = (9.8 * 30) / (velocity * 343)
\* rad/s with velocity in km/s, and 294 / 343 * (180 / PI) = 49.11
MaxTurnDeg(velocity, dt) == (4911 * dt) \div (10 * velocity)

\* heading update of one missile; jitter is this missile's draw of Math.random()
UpdateMissileHeading(m, tracking, p, dt, jitter) ==
    IF m.status # "active" THEN m
    ELSE IF tracking.status # "tracking"
    THEN [m EXCEPT !.heading = @ + jitter]
    ELSE LET dx == p[m.target].x - p[m.position].x
             dy == p[m.target].y - p[m.position].y
             desiredHeading == Atan2Deg(dy, dx)
             headingDiff == desiredHeading - m.heading
         IN IF Abs(headingDiff) > MaxTurnDeg(m.velocity, dt)
            THEN [m EXCEPT !.heading =
                     @ + MaxTurnDeg(m.velocity, dt) * (IF headingDiff > 0 THEN 1 ELSE -1)]
            ELSE [m EXCEPT !.heading = desiredHeading]

\* position update loop, missiles i..Len(ms): returns the heap after the loop and,
\* per missile, where its position object was before and after its own update
RECURSIVE UpdateMissilePositions(_, _, _, _, _)
UpdateMissilePositions(ms, i, p, dt, moves) ==
    IF i > Len(ms) THEN [pos |-> p, moves |-> moves]
    ELSE LET m == ms[i]
             cell == p[m.position]
             moved == Point(cell.x + RoundDiv(m.velocity * Cos1000(m.heading) * dt, 1000),
                            cell.y + RoundDiv(m.velocity * Sin1000(m.heading) * dt, 1000))
         IN IF m.status = "active"
            THEN UpdateMissilePositions(ms, i + 1, [p EXCEPT ![m.position] = moved], dt,
                     Append(moves, [active |-> TRUE, from |-> cell, to |-> moved]))
            ELSE UpdateMissilePositions(ms, i + 1, p, dt,
                     Append(moves, [active |-> FALSE, from |-> cell, to |-> cell]))

\* fighter.maneuvers is set to 'none' by the constructor and never written again
FighterManeuvers == "none"

\* evasive maneuver: turn toward the perpendicular of the SAM bearing, 6G limit
EvasiveHeading(sc, p, heading, dt) ==
    LET \* (9.8 * 6) / (fighter.velocity * 343) rad/s: 58.8 / 343 * (180 / PI) = 9.822
        maxTurn == (9822 * dt) \div (1000 * sc.fighterVelocity)
        angleToSAM == Atan2Deg(p.sam.y - p.fighter.y, p.sam.x - p.fighter.x)
        raw == angleToSAM + 90 - heading
        \* atan2(sin, cos): normalised to [-180, 180]
        headingDiff == ((raw + 180) % 360) - 180
    IN IF Abs(headingDiff) > maxTurn
       THEN heading + maxTurn * (IF headingDiff > 0 THEN 1 ELSE -1)
       ELSE heading + headingDiff

\* updateFighterPosition: x is advanced, y is assigned
UpdateFighterPosition(sc, p, heading, dt) ==
    LET velocityKmS == MachToVelocity(sc.fighterVelocity)
        distanceKm == velocityKmS * dt
    IN [p EXCEPT !.fighter =
           Point(@.x + RoundDiv(distanceKm * Cos1000(heading), 1000),
                 RoundDiv(distanceKm * Sin1000(heading), 1000))]

\* kill criteria loop, missiles i..Len(st.missiles); st carries the missile list,
\* the two platform states and the simulationComplete flag
RECURSIVE EvaluateKillCriteria(_, _, _, _)
EvaluateKillCriteria(st, i, p, now) ==
    IF i > Len(st.missiles) THEN st
    ELSE LET m == st.missiles[i]
             previousPosition == p[m.position]   \* { ...missile.position }, taken here
             targetPosition == p[m.target]
             intercepted == CheckMissileIntercept(p[m.position], m.launchedBy,
                                                  targetPosition, previousPosition)
             distanceTraveled == m.velocity * (now - m.timeOfLaunch)
         IN IF m.status # "active" THEN EvaluateKillCriteria(st, i + 1, p, now)
            ELSE IF intercepted
            THEN EvaluateKillCriteria(
                     [st EXCEPT !.missiles[i].status = "kill",
                                !.missiles[i].timeOfImpact = now,
                                !.state[m.target] = "destroyed",
                                !.simulationComplete = TRUE],
                     i + 1, p, now)
            ELSE IF m.maxRange # 0 /\ distanceTraveled >= m.maxRange
            THEN EvaluateKillCriteria([st EXCEPT !.missiles[i].status = "missed"],
                                      i + 1, p, now)
            ELSE EvaluateKillCriteria(st, i + 1, p, now)

\* mutant: "every missile is resolved", true of an empty list
AllMissilesExpendedVacuous(ms, i, simulationComplete) ==
    \A k \in i..Len(ms) : ms[k].status # "active"

\* mutant: one resolved missile is enough
AllMissilesExpendedSome(ms, i, simulationComplete) ==
    \E k \in i..Len(ms) : ms[k].status # "active"

\* "all missiles expended" loop: an active missile clears the flag and breaks,
\* any other missile sets it
RECURSIVE AllMissilesExpended(_, _, _)
AllMissilesExpended(ms, i, simulationComplete) ==
    IF i > Len(ms) THEN simulationComplete
    ELSE IF ms[i].status = "active" THEN FALSE
    ELSE AllMissilesExpended(ms, i + 1, TRUE)

\* mutant: the cap clamps the time and leaves the flag alone
CapSimulationTimeClampOnly(t, simulationComplete) ==
    [timeElapsed |-> IF t >= MAX_SIMULATION_TIME THEN MAX_SIMULATION_TIME ELSE t,
     simulationComplete |-> simulationComplete]

\* mutant: the cap sets the flag and leaves the time alone
CapSimulationTimeNoClamp(t, simulationComplete) ==
    [timeElapsed |-> t,
     simulationComplete |-> simulationComplete \/ t >= MAX_SIMULATION_TIME]

\* the simulation-time cap: the new timeElapsed and simulationComplete
CapSimulationTime(t, simulationComplete) ==
    IF t >= MAX_SIMULATION_TIME
    THEN [timeElapsed |-> MAX_SIMULATION_TIME, simulationComplete |-> TRUE]
    ELSE [timeElapsed |-> t, simulationComplete |-> simulationComplete]

----------------------------------------------------------------------------
(* Scenario: construction and the three calls *)

\* a scenario with its two platform configs: the SAM at the origin with two
\* missiles, a Mach 1 fighter with one Mach 2 HARM
ScenarioOf(ts, fighterStart, heading, harmRange, missileVelocity, launchIntervalSec) ==
    [timeStep |-> ts,
     samPosition |-> Point(0, 0),
     fighterPosition |-> fighterStart,
     fighterHeading |-> heading,
     fighterVelocity |-> 1,
     rcs |-> [nose |-> 1, tail |-> 1, side |-> 16],
     harmVelocity |-> 2,
     harmRange |-> harmRange,
     memr |-> 1500,
     missileVelocity |-> missileVelocity,
     nominalRange |-> 2000,
     numPulses |-> 1,
     numMissiles |-> 2,
     launchIntervalSec |-> launchIntervalSec]

\* the scenarios explored: time steps that divide the 600 s cap and that do not,
\* a fighter closing head-on, off-axis, from behind and from the south, a HARM
\* with and without a maximum range, and a fast SAM missile with a long reload
Scenarios ==
    { ScenarioOf(100, Point(2500, 0), 180, 800, 3, 120),
      ScenarioOf(100, Point(1400, 300), 180, 0, 3, 120),
      ScenarioOf(250, Point(1400, 300), 180, 800, 3, 120),
      ScenarioOf(100, Point(0, -1000), 90, 800, 3, 120),
      ScenarioOf(250, Point(-1200, 0), 0, 800, 3, 120),
      ScenarioOf(100, Point(-1200, 0), 0, 800, 3, 120),
      ScenarioOf(100, Point(1200, 0), 180, 800, 5, 200) }

NoCall == [op |-> "create", result |-> FALSE, isDetected |-> FALSE,
           detectedRun |-> 0, samLaunched |-> FALSE, shouldLaunchHARM |-> FALSE,
           harmLaunched |-> FALSE, moves |-> <<>>, targets |-> <<>>]

\* Scenario.create with both platform configs found, then the constructor
InitScenario(sc) ==
    /\ scenario = sc
    /\ timeStep = sc.timeStep
    /\ timeElapsed = 0
    /\ isEngagementComplete = FALSE
    /\ pos = [sam |-> sc.samPosition, fighter |-> sc.fighterPosition]
    /\ samState = "active"
    /\ trackingStatus = [status |-> "not_tracking", timeElapsedTracking |-> 0]
    /\ samStatus = [missilesRemaining |-> sc.numMissiles, lastLaunchTime |-> 0]
    /\ fighterState = "active"
    /\ fighterHeading = sc.fighterHeading
    /\ fighterMissilesRemaining = 1
    /\ missiles = <<>>
    /\ lastCall = NoCall
    /\ calls = 0
    /\ resets = 0

\* the jitter draws of one step: a draw matters only for a missile whose heading
\* the loop perturbs
JitterDraws(ms, tracking) ==
    { j \in [1..Len(ms) -> JitterDeg] :
        \A i \in 1..Len(ms) :
            (ms[i].status # "active" \/ tracking.status = "tracking") => j[i] = 0 }

\* tracking status update from this step's detection
\* mutant: the tracking time kept, not cleared, when the fighter is lost
UpdateTrackingStatusKeepTime(tracking, isDetected, dt) ==
    IF isDetected
    THEN [status |-> "tracking", timeElapsedTracking |-> tracking.timeElapsedTracking + dt]
    ELSE [status |-> "not_tracking", timeElapsedTracking |-> tracking.timeElapsedTracking]

UpdateTrackingStatus(tracking, isDetected, dt) ==
    IF isDetected
    THEN [status |-> "tracking", timeElapsedTracking |-> tracking.timeElapsedTracking + dt]
    ELSE [status |-> "not_tracking", timeElapsedTracking |-> 0]

\* the three nested conditions of the SAM launch
\* mutant: a launch that does not wait for the launch interval
SamLaunchDueNoInterval(sc, p, isDetected, state, status, now) ==
    /\ isDetected /\ state = "active"
    /\ IsFighterWithinMEMR(sc, p) /\ status.missilesRemaining > 0

SamLaunchDue(sc, p, isDetected, state, status, now) ==
    /\ isDetected /\ state = "active"
    /\ IsFighterWithinMEMR(sc, p) /\ status.missilesRemaining > 0
    /\ now - status.lastLaunchTime >= sc.launchIntervalSec

\* mutant: the fighter's ammunition not consulted
HarmLaunchDueAnyAmmo(sc, p, tracking, missilesRemaining) ==
    Truthy(ShouldFighterLaunchHARM(sc, p, tracking))

HarmLaunchDue(sc, p, tracking, missilesRemaining) ==
    Truthy(ShouldFighterLaunchHARM(sc, p, tracking)) /\ missilesRemaining > 0

\* the two missiles.push calls
LaunchMissiles(sc, p, ms, now, samLaunch, harmLaunch) ==
    LET azimuth == GetAzimuthSAMToFighter(p)
        angleToSAM == Atan2Deg(p.sam.y - p.fighter.y, p.sam.x - p.fighter.x)
        sam == IF samLaunch
               THEN <<CreateMissile("sam", MachToVelocity(sc.missileVelocity), azimuth,
                                    "sam", now, "fighter", sc.memr)>>
               ELSE <<>>
        harm == IF harmLaunch
                THEN <<CreateMissile("fighter", MachToVelocity(sc.harmVelocity),
                                     angleToSAM, "fighter", now, "sam", sc.harmRange)>>
                ELSE <<>>
    IN ms \o sam \o harm

\* Each intermediate value of the step is bound once, in the order the code
\* computes it.
AdvanceSimulationTimeStep ==
    /\ calls < MaxCalls
    /\ \E now \in {timeElapsed + timeStep},
          isDetected \in {IsFighterDetected(scenario, pos)} :
       \E tracking \in {UpdateTrackingStatus(trackingStatus, isDetected, timeStep)},
          samLaunch \in {SamLaunchDue(scenario, pos, isDetected, samState, samStatus, now)} :
       \E harmLaunch \in {HarmLaunchDue(scenario, pos, tracking, fighterMissilesRemaining)} :
       \E launched \in {LaunchMissiles(scenario, pos, missiles, now, samLaunch, harmLaunch)} :
       \E jitter \in JitterDraws(launched, tracking) :
       \E aimed \in {[i \in 1..Len(launched) |->
                        UpdateMissileHeading(launched[i], tracking, pos, timeStep, jitter[i])]} :
       \E moved \in {UpdateMissilePositions(aimed, 1, pos, timeStep, <<>>)} :
       \E heading \in {IF FighterManeuvers = "evasive"
                       THEN EvasiveHeading(scenario, moved.pos, fighterHeading, timeStep)
                       ELSE fighterHeading} :
       \E pos2 \in {IF fighterState = "active"
                    THEN UpdateFighterPosition(scenario, moved.pos, heading, timeStep)
                    ELSE moved.pos} :
       \E killed \in {EvaluateKillCriteria(
                         [missiles |-> aimed,
                          state |-> [sam |-> samState, fighter |-> fighterState],
                          simulationComplete |-> FALSE],
                         1, pos2, now)} :
       \E capped \in {CapSimulationTime(now,
                         AllMissilesExpended(killed.missiles, 1, killed.simulationComplete))} :
          /\ timeElapsed' = capped.timeElapsed
          /\ isEngagementComplete' = capped.simulationComplete
          /\ trackingStatus' = tracking
          /\ samStatus' = IF samLaunch
                          THEN [missilesRemaining |-> samStatus.missilesRemaining - 1,
                                lastLaunchTime |-> now]
                          ELSE samStatus
          /\ fighterMissilesRemaining' =
                 IF harmLaunch THEN fighterMissilesRemaining - 1
                 ELSE fighterMissilesRemaining
          /\ missiles' = killed.missiles
          /\ pos' = pos2
          /\ fighterHeading' = heading
          /\ samState' = killed.state.sam
          /\ fighterState' = killed.state.fighter
          /\ lastCall' = [op |-> "advance", result |-> capped.simulationComplete,
                          isDetected |-> isDetected,
                          detectedRun |-> IF isDetected THEN lastCall.detectedRun + 1
                                          ELSE 0,
                          samLaunched |-> samLaunch,
                          shouldLaunchHARM |->
                              Truthy(ShouldFighterLaunchHARM(scenario, pos, tracking)),
                          harmLaunched |-> harmLaunch, moves |-> moved.moves,
                          targets |-> [i \in 1..Len(aimed) |-> pos2[aimed[i].target]]]
          /\ calls' = calls + 1
    /\ UNCHANGED <<scenario, timeStep, resets, componentVars>>

\* mutant: a reset that keeps the missile list
ResetScenarioKeepMissiles ==
    /\ resets < MaxResets
    /\ timeElapsed' = 0
    /\ isEngagementComplete' = FALSE
    /\ lastCall' = [NoCall EXCEPT !.op = "reset",
                                  !.detectedRun = lastCall.detectedRun]
    /\ calls' = 0
    /\ resets' = resets + 1
    /\ UNCHANGED <<scenario, timeStep, pos, samState, trackingStatus, samStatus,
                   fighterState, fighterHeading, fighterMissilesRemaining, missiles,
                   componentVars>>

ResetScenario ==
    /\ resets < MaxResets
    /\ timeElapsed' = 0
    /\ isEngagementComplete' = FALSE
    /\ missiles' = <<>>
    /\ lastCall' = [NoCall EXCEPT !.op = "reset",
                                  !.detectedRun = lastCall.detectedRun]
    /\ calls' = 0
    /\ resets' = resets + 1
    /\ UNCHANGED <<scenario, timeStep, pos, samState, trackingStatus, samStatus,
                   fighterState, fighterHeading, fighterMissilesRemaining,
                   componentVars>>

----------------------------------------------------------------------------
(* QuadTree.  A node is named by its path from the root, a sequence of        *)
(* quadrant names; tree maps the paths of the nodes that exist to             *)
(* [bounds, items, divided].  bounds.width and bounds.height are half-extents. *)

(* Coordinates are JavaScript numbers.  They are modelled as integers carrying *)
(* MantissaBits significant bits: every addition and subtraction the code      *)
(* makes is rounded to nearest, ties to even, as IEEE-754 does at 53 bits.     *)
(* Halving is exact (the half-extents used stay even down to the depth that    *)
(* MaxInserts inserts can reach), and so are the squares in distance().        *)

MantissaBits == 4

RECURSIVE BitLength(_)
BitLength(n) == IF n = 0 THEN 0 ELSE 1 + BitLength(n \div 2)

\* round to nearest representable number, ties to even
FRound(n) ==
    LET a == Abs(n)
    IN IF a < 2 ^ MantissaBits THEN n
       ELSE LET q == 2 ^ (BitLength(a) - MantissaBits)
                r == a % q
                d == a - r
                v == IF 2 * r < q THEN d
                     ELSE IF 2 * r > q THEN d + q
                     ELSE IF (d \div q) % 2 = 0 THEN d ELSE d + q
            IN IF n >= 0 THEN v ELSE -v

FAdd(a, b) == FRound(a + b)
FSub(a, b) == FRound(a - b)

\* widths (= heights) of the grids of the precipitation field: one whose
\* quadrant centres are all representable, one whose are not
GridWidths == {128, 176}

\* the root bounds the constructor of the field derives from the grid
RootBounds(gridBounds) ==
    LET centerX == gridBounds.width \div 2
        centerY == gridBounds.height \div 2
    IN [x |-> centerX, y |-> centerY, width |-> centerX, height |-> centerY]

NewQuadTree(bounds) == [bounds |-> bounds, items |-> <<>>, divided |-> FALSE]

\* mutant: the edges of the bounds excluded
ContainsPointStrict(bounds, point) ==
    /\ point.x > FSub(bounds.x, bounds.width)
    /\ point.x < FAdd(bounds.x, bounds.width)
    /\ point.y > FSub(bounds.y, bounds.height)
    /\ point.y < FAdd(bounds.y, bounds.height)

\* mutant: the y axis not checked
ContainsPointXOnly(bounds, point) ==
    /\ point.x >= FSub(bounds.x, bounds.width)
    /\ point.x <= FAdd(bounds.x, bounds.width)

ContainsPoint(bounds, point) ==
    /\ point.x >= FSub(bounds.x, bounds.width)
    /\ point.x <= FAdd(bounds.x, bounds.width)
    /\ point.y >= FSub(bounds.y, bounds.height)
    /\ point.y <= FAdd(bounds.y, bounds.height)

\* distance(p1, p2) <= radius, with Math.sqrt removed by squaring both sides
DistanceWithin(p1, p2, radius) ==
    LET dx == FSub(p1.x, p2.x)
        dy == FSub(p1.y, p2.y)
    IN radius >= 0 /\ dx * dx + dy * dy <= radius * radius

Max(a, b) == IF a >= b THEN a ELSE b
Min(a, b) == IF a <= b THEN a ELSE b

\* mutant: the distance taken from the centre of the bounds
IntersectsCircleFromCentre(bounds, center, radius) ==
    DistanceWithin(Point(bounds.x, bounds.y), center, radius)

IntersectsCircle(bounds, center, radius) ==
    LET closestX == Max(FSub(bounds.x, bounds.width),
                        Min(center.x, FAdd(bounds.x, bounds.width)))
        closestY == Max(FSub(bounds.y, bounds.height),
                        Min(center.y, FAdd(bounds.y, bounds.height)))
    IN DistanceWithin(Point(closestX, closestY), center, radius)

\* subdivide: the four children of the node at path, then divided = true
Subdivide(t, path) ==
    LET b == t[path].bounds
        halfWidth == b.width \div 2
        halfHeight == b.height \div 2
        child(cx, cy) ==
            NewQuadTree([x |-> cx, y |-> cy, width |-> halfWidth, height |-> halfHeight])
    IN (Append(path, "northeast") :> child(FAdd(b.x, halfWidth), FAdd(b.y, halfHeight)))
       @@ (Append(path, "northwest") :> child(FSub(b.x, halfWidth), FAdd(b.y, halfHeight)))
       @@ (Append(path, "southeast") :> child(FAdd(b.x, halfWidth), FSub(b.y, halfHeight)))
       @@ (Append(path, "southwest") :> child(FSub(b.x, halfWidth), FSub(b.y, halfHeight)))
       @@ [t EXCEPT ![path].divided = TRUE]

\* insert at the node at path: the result, and the tree after the call
RECURSIVE QuadInsert(_, _, _, _, _)
QuadInsert(t, path, cap, point, data) ==
    IF ~ContainsPoint(t[path].bounds, point) THEN [ok |-> FALSE, tree |-> t]
    ELSE IF Len(t[path].items) < cap
    THEN [ok |-> TRUE,
          tree |-> [t EXCEPT ![path].items = Append(@, [point |-> point, data |-> data])]]
    ELSE LET t1 == IF ~t[path].divided THEN Subdivide(t, path) ELSE t
             ne == QuadInsert(t1, Append(path, "northeast"), cap, point, data)
             nw == QuadInsert(ne.tree, Append(path, "northwest"), cap, point, data)
             se == QuadInsert(nw.tree, Append(path, "southeast"), cap, point, data)
             sw == QuadInsert(se.tree, Append(path, "southwest"), cap, point, data)
         IN IF ne.ok THEN ne ELSE IF nw.ok THEN nw ELSE IF se.ok THEN se ELSE sw

SelectItems(items, center, radius) ==
    SelectSeq(items, LAMBDA item : DistanceWithin(item.point, center, radius))

RECURSIVE QueryRange(_, _, _, _)
QueryRange(t, path, center, radius) ==
    IF ~IntersectsCircle(t[path].bounds, center, radius) THEN <<>>
    ELSE SelectItems(t[path].items, center, radius)
         \o (IF t[path].divided
             THEN QueryRange(t, Append(path, "northeast"), center, radius)
                  \o QueryRange(t, Append(path, "northwest"), center, radius)
                  \o QueryRange(t, Append(path, "southeast"), center, radius)
                  \o QueryRange(t, Append(path, "southwest"), center, radius)
             ELSE <<>>)

RECURSIVE QueryAll(_, _)
QueryAll(t, path) ==
    t[path].items
    \o (IF t[path].divided
        THEN QueryAll(t, Append(path, "northeast"))
             \o QueryAll(t, Append(path, "northwest"))
             \o QueryAll(t, Append(path, "southeast"))
             \o QueryAll(t, Append(path, "southwest"))
        ELSE <<>>)

\* the points inserted into a tree of root bounds b: corners, edges and centre
\* of the root, the centres and edges of quadrants, and points outside on each
\* side; every coordinate is a representable number
InsertPoints(b) ==
    LET c == b.x
        far == FRound(2 * c + c \div 4)
    IN { Point(0, 0), Point(2 * c, 2 * c), Point(c, c), Point(c, 0),
         Point(c \div 2, FRound(c + c \div 2)),
         Point(FRound(c + c \div 2), FRound(c + c \div 2)), Point(c, 2 * c),
         Point(-1, c), Point(far, c), Point(c, -1) }

Capacities == {1, 2}

InitQuad(cap, gridBounds) ==
    /\ tree = (<<>> :> NewQuadTree(RootBounds(gridBounds)))
    /\ capacity = cap
    /\ inserts = <<>>

\* one call quadTree.insert(point, data): data is the call's number
Insert ==
    /\ Len(inserts) < MaxInserts
    /\ \E point \in InsertPoints(tree[<<>>].bounds) :
         LET data == Len(inserts) + 1
             r == QuadInsert(tree, <<>>, capacity, point, data)
         IN /\ tree' = r.tree
            /\ inserts' = Append(inserts, [point |-> point, data |-> data, ok |-> r.ok])
    /\ UNCHANGED <<capacity, scenarioVars, fieldVars, libVars, pollVars, controllerVars>>

----------------------------------------------------------------------------
(* SyntheticPrecipitationField.  Positions and sizes are in km, rain rates in  *)
(* mm/hr; a sampled rate is in thousandths of mm/hr.  A cell is                *)
(* [center, size, rate, alpha], alpha a fraction [num, den]; a number that can *)
(* be NaN is [nan, value].                                                     *)

MaxCells == 3       \* numCells of the field config, at most

MaxRainRate == 50
NominalCellSize == 2

SyntheticFieldConfig ==
    [gridBounds |-> [width |-> 128, height |-> 128],
     nominalCellSize |-> NominalCellSize]

\* 1000 * Math.exp(-k / 4) for k = 0..27; beyond, the table reads 0
ExpTab ==
    <<1000, 779, 607, 472, 368, 287, 223, 174, 135, 105, 82, 64, 50, 39,
      30, 24, 18, 14, 11, 9, 7, 5, 4, 3, 2, 2, 2, 1>>

\* 1000 * Math.exp(-(num / den)), num >= 0 and den > 0
ExpNegMilli(num, den) ==
    LET k == (4 * num) \div den
    IN IF k < Len(ExpTab) THEN ExpTab[k + 1] ELSE 0

Number(v) == [nan |-> FALSE, value |-> v]
NaN == [nan |-> TRUE, value |-> 0]

\* 1000 * Math.sqrt(dx * dx + dy * dy)
DistanceMilli(dx, dy) == CeilSqrt((dx * dx + dy * dy) * 1000000)

IsInRange(cell, x, y) ==
    LET dx == x - cell.center.x
        dy == y - cell.center.y
    IN cell.size >= 0 /\ dx * dx + dy * dy <= cell.size * cell.size

\* sigma is alpha * size; with sigma = 0 the quotient by sigma is 0 / 0 = NaN at
\* the centre and Infinity elsewhere, and Math.exp(-Infinity) is 0
GetRainRateAt(cell, x, y) ==
    LET dx == x - cell.center.x
        dy == y - cell.center.y
        d2 == dx * dx + dy * dy
        s2 == cell.alpha.num * cell.alpha.num * cell.size * cell.size
    IN IF s2 = 0
       THEN IF d2 = 0 THEN NaN ELSE Number(0)
       ELSE Number(cell.rate
                   * ExpNegMilli(d2 * cell.alpha.den * cell.alpha.den, 2 * s2))

\* the weight Math.exp(-dist / (2 * sigma * sigma)), times 1000
GaussianWeight(cell, x, y) ==
    LET dist == DistanceMilli(x - cell.center.x, y - cell.center.y)
        s2 == cell.alpha.num * cell.alpha.num * cell.size * cell.size
    IN IF s2 = 0
       THEN IF dist = 0 THEN NaN ELSE Number(0)
       ELSE Number(ExpNegMilli(dist * cell.alpha.den * cell.alpha.den, 2000 * s2))

\* the loop of sampleRainRate over the nearby cells: rainRate += rate * weight
RECURSIVE SumContributions(_, _, _, _, _, _)
SumContributions(nearby, i, cs, x, y, rainRate) ==
    IF i > Len(nearby) THEN rainRate
    ELSE LET cell == cs[nearby[i].data]
             rate == GetRainRateAt(cell, x, y)
             weight == GaussianWeight(cell, x, y)
             next == IF ~IsInRange(cell, x, y) THEN rainRate
                     ELSE IF rainRate.nan \/ rate.nan \/ weight.nan THEN NaN
                     ELSE Number(rainRate.value
                                 + (rate.value * weight.value) \div 1000)
         IN SumContributions(nearby, i + 1, cs, x, y, next)

\* mutant: the sum returned as it is
SampleRainRateUncapped(t, cs, x, y) ==
    LET searchRadius == SyntheticFieldConfig.nominalCellSize * 10
        nearbyCells == QueryRange(t, <<>>, Point(x, y), searchRadius)
    IN IF Len(nearbyCells) = 0 THEN Number(0)
       ELSE SumContributions(nearbyCells, 1, cs, x, y, Number(0))

\* sampleRainRate(x, y) on the field of cells cs indexed by the tree t
SampleRainRate(t, cs, x, y) ==
    LET searchRadius == SyntheticFieldConfig.nominalCellSize * 10
        nearbyCells == QueryRange(t, <<>>, Point(x, y), searchRadius)
        rainRate == SumContributions(nearbyCells, 1, cs, x, y, Number(0))
    IN IF Len(nearbyCells) = 0 THEN Number(0)
       ELSE IF rainRate.nan THEN NaN
       ELSE Number(Min(rainRate.value, MaxRainRate * 1000))

Cell(cx, cy, size, rate) ==
    [center |-> Point(cx, cy), size |-> size, rate |-> rate,
     alpha |-> [num |-> 1, den |-> 2]]

\* the cells generateCells can draw: overlapping cells, a cell apart, a cell of
\* size 0, a cell of negative rate
CellChoices ==
    { Cell(4, 4, 4, 40), Cell(6, 4, 4, 40), Cell(5, 4, 2, 60),
      Cell(4, 4, 0, 40), Cell(12, 12, 4, 40), Cell(6, 4, 4, -5) }

SamplePoints == { Point(5, 4), Point(4, 4), Point(12, 12), Point(9, 4), Point(96, 96) }

\* generateCells: every cell drawn is pushed to cells and inserted in the tree
RECURSIVE GenerateCells(_, _, _)
GenerateCells(field, drawn, i) ==
    IF i > Len(drawn) THEN field
    ELSE LET r == QuadInsert(field.tree, <<>>, 4, drawn[i].center, i)
         IN GenerateCells(
              [tree |-> r.tree,
               cells |-> Append(field.cells, drawn[i]),
               inserts |-> Append(field.inserts,
                                  [point |-> drawn[i].center, data |-> i, ok |-> r.ok])],
              drawn, i + 1)

NoSample == [x |-> 0, y |-> 0, taken |-> FALSE, result |-> Number(0)]

\* new SyntheticPrecipitationField(config) with the cells drawn
InitField(drawn) ==
    LET field == GenerateCells(
                   [tree |-> (<<>> :> NewQuadTree(RootBounds(SyntheticFieldConfig.gridBounds))),
                    cells |-> <<>>, inserts |-> <<>>], drawn, 1)
    IN /\ tree = field.tree
       /\ capacity = 4
       /\ inserts = field.inserts
       /\ cells = field.cells
       /\ sample = NoSample

\* one call sampleRainRate(x, y)
SampleRainRateCall ==
    /\ \E point \in SamplePoints :
         sample' = [x |-> point.x, y |-> point.y, taken |-> TRUE,
                    result |-> SampleRainRate(tree, cells, point.x, point.y)]
    /\ UNCHANGED <<scenarioVars, quadVars, cells, libVars, pollVars, controllerVars>>

----------------------------------------------------------------------------
(* Methods that read only their arguments and the fields of a config, called  *)
(* on their own                                                               *)

NoLibCall == [fn |-> "none"]

\* the arguments tried: distances on both sides of harmRange and of the MEMR
HarmRanges == {0, 800, 1500}
Distances == {0, 1, 799, 800, 801, 1499, 1500, 1501}
Memrs == {1000, 1500}

\* fighter.shouldLaunchHARM(distanceToSAM, samMEMR, samTracking)
ShouldLaunchHARMCall ==
    /\ \E harmRange \in HarmRanges, distanceToSAM \in Distances,
          samMEMR \in Memrs, samTracking \in BOOLEAN :
         call' = [fn |-> "shouldLaunchHARM", harmRange |-> harmRange,
                  distanceToSAM |-> distanceToSAM, samMEMR |-> samMEMR,
                  samTracking |-> samTracking,
                  result |-> ShouldLaunchHARM(harmRange, distanceToSAM, samMEMR,
                                              samTracking)]
    /\ UNCHANGED <<scenarioVars, quadVars, fieldVars, pollVars, controllerVars, radar>>

\* an RCS profile whose three values differ
RcsProfile == [nose |-> 1, tail |-> 2, side |-> 16]

\* the aspect angles tried: more than a turn on both sides of 0
AspectAngles == -400..800

\* fighter.getRCSAtAspect(azimuthDeg)
GetRCSAtAspectCall ==
    /\ \E azimuthDeg \in AspectAngles :
         call' = [fn |-> "getRCSAtAspect", azimuthDeg |-> azimuthDeg,
                  result |-> GetRCSAtAspect(RcsProfile, azimuthDeg)]
    /\ UNCHANGED <<scenarioVars, quadVars, fieldVars, pollVars, controllerVars, radar>>

\* what the platform file of a config id holds
PlatformFiles == {"missing", "malformed", "valid"}

\* storage.loadFighterPlatform / loadSAMPlatform: a read or parse error is
\* caught and answered with null
LoadPlatform(file) == IF file = "valid" THEN "config" ELSE "null"

\* mutant: the SAM config used without the null check
CreateSamUnchecked(fighterFile, samFile) ==
    LET fighterPlatform == LoadPlatform(fighterFile)
        samPlatform == LoadPlatform(samFile)
    IN IF fighterPlatform = "null"
       THEN [thrown |-> "Fighter platform config not found", instance |-> FALSE,
             constructed |-> <<>>]
       ELSE IF samPlatform = "null"
       THEN [thrown |-> "TypeError", instance |-> FALSE, constructed |-> <<"Fighter">>]
       ELSE [thrown |-> "none", instance |-> TRUE,
             constructed |-> <<"Fighter", "SAMSystem", "Scenario">>]

\* Scenario.create: what it throws, whether it returns an instance, and the
\* objects constructed on the way
Create(fighterFile, samFile) ==
    LET fighterPlatform == LoadPlatform(fighterFile)
        samPlatform == LoadPlatform(samFile)
    IN IF fighterPlatform = "null"
       THEN [thrown |-> "Fighter platform config not found", instance |-> FALSE,
             constructed |-> <<>>]
       ELSE IF samPlatform = "null"
       THEN [thrown |-> "SAM system config not found", instance |-> FALSE,
             constructed |-> <<>>]
       ELSE [thrown |-> "none", instance |-> TRUE,
             constructed |-> <<"Fighter", "SAMSystem", "Scenario">>]

\* Scenario.create(scenario, timeStep) over a storage of the caller's choice
CreateCall ==
    /\ \E fighterFile \in PlatformFiles, samFile \in PlatformFiles :
         call' = [fn |-> "create", fighterFile |-> fighterFile, samFile |-> samFile,
                  result |-> Create(fighterFile, samFile)]
    /\ UNCHANGED <<scenarioVars, quadVars, fieldVars, pollVars, controllerVars, radar>>

\* missile movements of one step, from the origin: none, oblique, along the x axis
InterceptMoves == {Point(0, 0), Point(3, 4), Point(6, 0)}

\* target positions around the movement: on it, beside it, behind it, ahead of it
InterceptTargets == {Point(x, y) : x \in -2..8, y \in -1..6}

\* scenario.checkMissileIntercept(missile, targetPos, previousMissilePos)
CheckMissileInterceptCall ==
    /\ \E missilePos \in InterceptMoves, targetPos \in InterceptTargets,
          launchedBy \in {"sam", "fighter"} :
         call' = [fn |-> "checkMissileIntercept", missilePos |-> missilePos,
                  launchedBy |-> launchedBy, targetPos |-> targetPos,
                  previousMissilePos |-> Point(0, 0),
                  result |-> CheckMissileIntercept(missilePos, launchedBy, targetPos,
                                                   Point(0, 0))]
    /\ UNCHANGED <<scenarioVars, quadVars, fieldVars, pollVars, controllerVars, radar>>

\* Radar.worldToImageCoordinates.  position is given in half kilometres, so
\* that Math.floor has something to round; grid.origin may be undefined.
\* warned tells whether the out-of-bounds warning was logged.
WorldToImageCoordinates(position, grid) ==
    LET originX == IF ~grid.origin.defined THEN 0 ELSE grid.origin.x
        originY == IF ~grid.origin.defined THEN 0 ELSE grid.origin.y
        resolution == grid.resolution
        width == grid.width * resolution
        height == grid.height * resolution
        centerPixelCoordinate == Point(width \div 2, height \div 2)
        \* Math.floor((position.x - originX) * resolution), position.x in halves
        ix == centerPixelCoordinate.x + ((position.x - 2 * originX) * resolution) \div 2
        iy == centerPixelCoordinate.y - ((position.y - 2 * originY) * resolution) \div 2
        outside == ix < 0 \/ ix >= width \/ iy < 0 \/ iy >= height
    IN [ix |-> IF outside /\ (ix < 0 \/ ix >= width) THEN 0 ELSE ix,
        iy |-> IF outside /\ (iy < 0 \/ iy >= height) THEN 0 ELSE iy,
        warned |-> outside]

\* scenario.grid values: odd and even sizes, one and two pixels per km, with
\* and without an origin
NoOrigin == [defined |-> FALSE, x |-> 0, y |-> 0]

Origin(x, y) == [defined |-> TRUE, x |-> x, y |-> y]

Grids ==
    { [width |-> 4, height |-> 4, resolution |-> 1, origin |-> NoOrigin],
      [width |-> 5, height |-> 3, resolution |-> 1, origin |-> Origin(1, 1)],
      [width |-> 4, height |-> 4, resolution |-> 2, origin |-> NoOrigin],
      [width |-> 5, height |-> 3, resolution |-> 2, origin |-> Origin(1, 1)] }

\* world coordinates in half kilometres, inside and outside of every grid
HalfKm == {-9, -4, -3, -1, 0, 1, 3, 4, 9}

\* radar.worldToImageCoordinates(position, scenario)
WorldToImageCoordinatesCall ==
    /\ \E x \in HalfKm, y \in HalfKm, grid \in Grids :
         call' = [fn |-> "worldToImageCoordinates", position |-> Point(x, y),
                  grid |-> grid,
                  result |-> WorldToImageCoordinates(Point(x, y), grid)]
    /\ UNCHANGED <<scenarioVars, quadVars, fieldVars, pollVars, controllerVars, radar>>

----------------------------------------------------------------------------
(* Radar: the ITU table and the attenuated detection range.  The ray marched  *)
(* from the radar is the sequence of the samples it visits before the loop    *)
(* ends: "outside" the image, a "dry" pixel, or a pixel with "rain".  The     *)
(* range returned is named by the statement that returns it.                  *)

MaxRay == 3         \* samples visited along a ray, at most

\* new Radar(config): neither the ITU table nor the image is loaded
NewRadar == [ituData |-> "null", imageData |-> "null"]

\* getSpecificAttenuation(rainRate) on the radar r
GetSpecificAttenuation(r) ==
    IF r.ituData = "null"
    THEN [thrown |-> "ITU data not loaded", value |-> "none"]
    ELSE [thrown |-> "none", value |-> "attenuation"]

\* the for loop of the ray march, samples i..Len(ray): how it ends ("done", or
\* the exception thrown in it) and the lookups made
RECURSIVE MarchRay(_, _, _, _)
MarchRay(r, ray, i, lookups) ==
    IF i > Len(ray) THEN [thrown |-> "none", lookups |-> lookups]
    ELSE IF ray[i] = "outside" THEN MarchRay(r, ray, i + 1, lookups)
    ELSE IF r.imageData = "null" THEN [thrown |-> "TypeError", lookups |-> lookups]
    ELSE IF ray[i] = "dry" THEN MarchRay(r, ray, i + 1, lookups)
    ELSE IF GetSpecificAttenuation(r).thrown # "none"
    THEN [thrown |-> GetSpecificAttenuation(r).thrown, lookups |-> lookups + 1]
    ELSE MarchRay(r, ray, i + 1, lookups + 1)

\* calculateDetectionRangeWithPrecipitationFieldSampling: whatever the ray march
\* throws is caught and answered with nominalRange
CalculateDetectionRangeWithPrecipitationFieldSampling(r, hasImage, ray) ==
    IF ~hasImage
    THEN [thrown |-> "none", range |-> "unattenuated", lookups |-> 0,
          lookupFailed |-> FALSE]
    ELSE LET march == MarchRay(r, ray, 1, 0)
         IN [thrown |-> "none",
             range |-> IF march.thrown = "none" THEN "resultRange" ELSE "nominalRange",
             lookups |-> march.lookups,
             lookupFailed |-> march.thrown = "ITU data not loaded"]

Rays == UNION {[1..n -> {"outside", "dry", "rain"}] : n \in 1..MaxRay}

LoadITUData ==
    /\ radar.ituData = "null"
    /\ radar' = [radar EXCEPT !.ituData = "loaded"]
    /\ UNCHANGED <<scenarioVars, quadVars, fieldVars, pollVars, controllerVars, call>>

\* loadImageDataFromScenario: a failure to load is caught and leaves imageData
LoadImageDataFromScenario ==
    /\ radar.imageData = "null"
    /\ \E imageData \in {"null", "loaded"} :
         radar' = [radar EXCEPT !.imageData = imageData]
    /\ UNCHANGED <<scenarioVars, quadVars, fieldVars, pollVars, controllerVars, call>>

GetSpecificAttenuationCall ==
    /\ call' = [fn |-> "getSpecificAttenuation", ituData |-> radar.ituData,
                result |-> GetSpecificAttenuation(radar)]
    /\ UNCHANGED <<scenarioVars, quadVars, fieldVars, pollVars, controllerVars, radar>>

CalculateDetectionRangeCall ==
    /\ \E hasImage \in BOOLEAN, ray \in Rays :
         call' = [fn |-> "calculateDetectionRangeWithPrecipitationFieldSampling",
                  ituData |-> radar.ituData, imageData |-> radar.imageData,
                  hasImage |-> hasImage, ray |-> ray,
                  result |-> CalculateDetectionRangeWithPrecipitationFieldSampling(
                                 radar, hasImage, ray)]
    /\ UNCHANGED <<scenarioVars, quadVars, fieldVars, pollVars, controllerVars, radar>>

----------------------------------------------------------------------------
(* getState.  A position of the snapshot is [shared, x, y]: shared tells       *)
(* whether the object is the platform's own position object or a copy of it.   *)

MaxPolls == 1       \* getState calls explored

NoSnapshot == [taken |-> FALSE]

\* mutant: the position objects returned as they are
GetStateSharing(sc, p, heading, tracking) ==
    [taken |-> TRUE, written |-> FALSE,
     samPosition |-> [shared |-> TRUE, x |-> p.sam.x, y |-> p.sam.y],
     fighterPosition |-> [shared |-> TRUE, x |-> p.fighter.x, y |-> p.fighter.y],
     distance |-> GetDistanceSAMToFighter(p),
     azimuth |-> GetAzimuthSAMToFighter(p),
     fighterRCS |-> GetFighterRCSFromSAM(sc, p, heading),
     isDetected |-> IsFighterDetected(sc, p),
     isWithinMEMR |-> IsFighterWithinMEMR(sc, p),
     shouldLaunchHARM |-> ShouldFighterLaunchHARM(sc, p, tracking)]

\* the snapshot getState() returns: { ...position } is a fresh object
GetState(sc, p, heading, tracking) ==
    [taken |-> TRUE, written |-> FALSE,
     samPosition |-> [shared |-> FALSE, x |-> p.sam.x, y |-> p.sam.y],
     fighterPosition |-> [shared |-> FALSE, x |-> p.fighter.x, y |-> p.fighter.y],
     distance |-> GetDistanceSAMToFighter(p),
     azimuth |-> GetAzimuthSAMToFighter(p),
     fighterRCS |-> GetFighterRCSFromSAM(sc, p, heading),
     isDetected |-> IsFighterDetected(sc, p),
     isWithinMEMR |-> IsFighterWithinMEMR(sc, p),
     shouldLaunchHARM |-> ShouldFighterLaunchHARM(sc, p, tracking)]

\* one call getState()
GetStateCall ==
    /\ polls < MaxPolls
    /\ snapshot' = GetState(scenario, pos, fighterHeading, trackingStatus)
    /\ polls' = polls + 1
    /\ UNCHANGED <<scenarioVars, quadVars, fieldVars, libVars, controllerVars>>

\* the platform whose position a field of the snapshot shows
PlatformOf(field) == IF field = "samPosition" THEN "sam" ELSE "fighter"

\* the holder of the snapshot assigns to a coordinate of one of its positions;
\* a write to a shared object is a write to the platform's position
WriteSnapshot ==
    /\ snapshot.taken /\ ~snapshot.written
    /\ \E field \in {"samPosition", "fighterPosition"}, x \in {7} :
         /\ snapshot' = [snapshot EXCEPT ![field].x = x, !.written = TRUE]
         /\ pos' = IF snapshot[field].shared
                   THEN [pos EXCEPT ![PlatformOf(field)].x = x]
                   ELSE pos
    /\ UNCHANGED <<scenario, timeStep, timeElapsed, isEngagementComplete, samState,
                   trackingStatus, samStatus, fighterState, fighterHeading,
                   fighterMissilesRemaining, missiles, lastCall, calls, resets,
                   quadVars, fieldVars, libVars, polls, controllerVars>>

----------------------------------------------------------------------------
(* SimulationController: the HTTP handlers initialize, run, step and reset.   *)
(* The Scenario it holds is summarised by how often it was created            *)
(* (generation), how many steps it was advanced, and whether it is complete.  *)
(* A request carries a simulationKey field: the controller's key, another     *)
(* string, or none.                                                            *)

MaxRequests == 3    \* HTTP requests explored

Clients == {"alice", "bob"}

\* the randomUUID() of the constructor
SimulationKey == "uuid"

NoScenario == [defined |-> FALSE, generation |-> 0, advanced |-> 0, complete |-> FALSE]

\* the state after the constructor: a key, no scenarioMeta, no scenario
NewController ==
    [simulationKey |-> SimulationKey, keyLocked |-> FALSE,
     scenarioMeta |-> "undefined", scenario |-> NoScenario]

NoRequest == [client |-> "none", op |-> "none", simulationKey |-> "none", status |-> 0]

\* Scenario.create(scenarioMeta, 0.5): a new Scenario at time 0
CreateScenario(ctl) ==
    [defined |-> TRUE, generation |-> ctl.scenario.generation + 1,
     advanced |-> 0, complete |-> FALSE]

\* the simulationKey fields a client can put in a request body
KeysOf(client) ==
    {"none", "wrong"} \cup (IF clientHasKey[client] THEN {SimulationKey} ELSE {})

\* what storage.loadScenario answers for a scenario id
LoadScenario(scenarioId) == IF scenarioId = "stored" THEN "stored" ELSE "null"

Answer(client, op, key, status) ==
    /\ lastRequest' = [client |-> client, op |-> op, simulationKey |-> key,
                       status |-> status]
    /\ requests' = requests + 1

\* POST /api/simulation/initialize: no key is read from the request
Initialize ==
    /\ requests < MaxRequests
    /\ \E client \in Clients, scenarioId \in {"stored", "missing"} :
       \E key \in KeysOf(client), scenarioMeta \in {LoadScenario(scenarioId)} :
          IF scenarioMeta = "null"
          THEN /\ controller' = [controller EXCEPT !.scenarioMeta = scenarioMeta]
               /\ Answer(client, "initialize", key, 404)
               /\ UNCHANGED clientHasKey
          ELSE /\ controller' = [controller EXCEPT !.scenarioMeta = scenarioMeta,
                                                   !.scenario = CreateScenario(controller)]
               /\ clientHasKey' = [clientHasKey EXCEPT ![client] = TRUE]
               /\ Answer(client, "initialize", key, 200)
    /\ UNCHANGED <<scenarioVars, quadVars, fieldVars, libVars, pollVars>>

\* POST /api/simulation/step
Step ==
    /\ requests < MaxRequests
    /\ \E client \in Clients : \E key \in KeysOf(client) :
          IF key # controller.simulationKey
          THEN /\ Answer(client, "step", key, 403)
               /\ UNCHANGED controller
          ELSE IF ~controller.scenario.defined
          THEN \* this.scenario is undefined: TypeError, caught
               /\ Answer(client, "step", key, 500)
               /\ UNCHANGED controller
          ELSE \E simulationComplete \in BOOLEAN :
               /\ controller' = [controller EXCEPT
                                    !.scenario.advanced = @ + 1,
                                    !.scenario.complete = simulationComplete]
               /\ Answer(client, "step", key, 200)
    /\ UNCHANGED <<scenarioVars, quadVars, fieldVars, libVars, pollVars, clientHasKey>>

\* POST /api/simulation/run: steps until the engagement is complete
Run ==
    /\ requests < MaxRequests
    /\ \E client \in Clients : \E key \in KeysOf(client) :
          IF key # controller.simulationKey
          THEN /\ Answer(client, "run", key, 403)
               /\ UNCHANGED controller
          ELSE IF ~controller.scenario.defined
          THEN /\ Answer(client, "run", key, 500)
               /\ UNCHANGED controller
          ELSE \E steps \in (IF controller.scenario.complete THEN {0} ELSE {1, 2}) :
               /\ controller' = [controller EXCEPT
                                    !.scenario.advanced = @ + steps,
                                    !.scenario.complete = TRUE]
               /\ Answer(client, "run", key, 200)
    /\ UNCHANGED <<scenarioVars, quadVars, fieldVars, libVars, pollVars, clientHasKey>>

\* POST /api/simulation/reset: no key is read from the request; Scenario.create
\* throws on a missing scenarioMeta, which is caught
Reset ==
    /\ requests < MaxRequests
    /\ \E client \in Clients : \E key \in KeysOf(client) :
          IF controller.scenarioMeta = "stored"
          THEN /\ controller' = [controller EXCEPT !.scenario = CreateScenario(controller)]
               /\ Answer(client, "reset", key, 200)
          ELSE /\ Answer(client, "reset", key, 500)
               /\ UNCHANGED controller
    /\ UNCHANGED <<scenarioVars, quadVars, fieldVars, libVars, pollVars, clientHasKey>>

----------------------------------------------------------------------------
(* Specifications *)

\* no method called and no snapshot taken yet
InitLib ==
    /\ call = NoLibCall
    /\ radar = NewRadar
    /\ snapshot = NoSnapshot
    /\ polls = 0
    /\ controller = NewController
    /\ clientHasKey = [client \in Clients |-> FALSE]
    /\ lastRequest = NoRequest
    /\ requests = 0

\* the engagement simulator, driven by its caller
Init == (\E sc \in Scenarios : InitScenario(sc)) /\ InitField(<<>>) /\ InitLib

Next == AdvanceSimulationTimeStep \/ ResetScenario

Spec == Init /\ [][Next]_vars

\* the spatial index, built insert by insert
InitQT ==
    /\ InitScenario(CHOOSE sc \in Scenarios : TRUE)
    /\ \E cap \in Capacities, w \in GridWidths :
         InitQuad(cap, [width |-> w, height |-> w])
    /\ cells = <<>>
    /\ sample = NoSample
    /\ InitLib

NextQT == Insert

SpecQT == InitQT /\ [][NextQT]_vars

\* a radar used on its own
InitRadar ==
    /\ InitScenario(CHOOSE sc \in Scenarios : TRUE)
    /\ InitField(<<>>)
    /\ InitLib

NextRadar ==
    \/ LoadITUData
    \/ LoadImageDataFromScenario
    \/ GetSpecificAttenuationCall
    \/ CalculateDetectionRangeCall

SpecRadar == InitRadar /\ [][NextRadar]_vars

\* the simulator stepped by a caller that polls getState between the steps
PolledScenarios == { ScenarioOf(250, Point(-1200, 0), 0, 800, 3, 120) }

InitPolled ==
    (\E sc \in PolledScenarios : InitScenario(sc)) /\ InitField(<<>>) /\ InitLib

NextPolled == Next \/ GetStateCall \/ WriteSnapshot

SpecPolled == InitPolled /\ [][NextPolled]_vars

\* the precipitation field: constructed with its cells, then sampled
InitRain ==
    /\ InitScenario(CHOOSE sc \in Scenarios : TRUE)
    /\ \E n \in 0..MaxCells : \E drawn \in [1..n -> CellChoices] : InitField(drawn)
    /\ InitLib

NextRain == SampleRainRateCall

SpecRain == InitRain /\ [][NextRain]_vars

\* the fighter's methods and Scenario.create, called with arguments of the
\* caller's choice
InitLibrary ==
    /\ InitScenario(CHOOSE sc \in Scenarios : TRUE)
    /\ InitField(<<>>)
    /\ InitLib

NextLibrary == ShouldLaunchHARMCall \/ GetRCSAtAspectCall \/ CreateCall

SpecLibrary == InitLibrary /\ [][NextLibrary]_vars

\* the geometry helpers called on their own
NextGeometry == CheckMissileInterceptCall \/ WorldToImageCoordinatesCall

SpecGeometry == InitLibrary /\ [][NextGeometry]_vars

\* the controller serving two clients
NextController == Initialize \/ Step \/ Run \/ Reset

SpecController == InitLibrary /\ [][NextController]_vars

----------------------------------------------------------------------------
(* Properties of the engagement simulator *)

CeilDiv(a, b) == (a + b - 1) \div b

NoMissileActive == \A i \in 1..Len(missiles) : missiles[i].status # "active"
AllMissilesMissed == \A i \in 1..Len(missiles) : missiles[i].status = "missed"
ExactlyOneKill == Cardinality({i \in 1..Len(missiles) : missiles[i].status = "kill"}) = 1

C2_TimeClamped ==
    /\ [](timeElapsed <= MAX_SIMULATION_TIME)
    /\ [][(lastCall'.op = "advance" /\ timeElapsed + timeStep >= MAX_SIMULATION_TIME)
             => (timeElapsed' = MAX_SIMULATION_TIME /\ lastCall'.result
                 /\ isEngagementComplete')]_vars

\* C2 witness: a step taken past the cap, by a time step that does not divide 600
C2_Witness ==
    /\ lastCall.op = "advance"
    /\ calls * timeStep > MAX_SIMULATION_TIME + timeStep
    /\ MAX_SIMULATION_TIME % timeStep # 0
    /\ timeElapsed = MAX_SIMULATION_TIME

\* C3 as stated: advanceSimulationTimeStep returns true exactly when every
\* missile of the list is resolved (an empty list included) or the time has
\* reached 600.
C3_AsStated ==
    lastCall.op = "advance" =>
        (lastCall.result <=> (NoMissileActive \/ timeElapsed >= MAX_SIMULATION_TIME))

\* C3 amended: advanceSimulationTimeStep returns true, and engagementComplete()
\* is true, exactly when the list holds at least one missile and none is
\* active, or the time has reached 600; with no missile launched yet it returns
\* false until the cap.
C3_CompleteIff ==
    lastCall.op = "advance" =>
        /\ lastCall.result = isEngagementComplete
        /\ lastCall.result <=>
              ((missiles # <<>> /\ NoMissileActive)
               \/ timeElapsed >= MAX_SIMULATION_TIME)

\* C3 witness: a step returns true before the cap, and the list is not empty
C3_Witness ==
    /\ lastCall.op = "advance" /\ lastCall.result
    /\ timeElapsed < MAX_SIMULATION_TIME
    /\ missiles # <<>>

C5_AsStated ==
    (lastCall.op = "advance" /\ lastCall.result) =>
        (ExactlyOneKill \/ AllMissilesMissed)

\* C5 amended: when advanceSimulationTimeStep reports the engagement complete
\* before the 600 s cap, exactly one missile is 'kill' or every missile is
\* 'missed'; at the cap missiles may still be active.
C5_TerminalStatuses ==
    (lastCall.op = "advance" /\ lastCall.result
        /\ timeElapsed < MAX_SIMULATION_TIME) =>
        (ExactlyOneKill \/ AllMissilesMissed)

\* C5 witness: completion before the cap with several missiles, all resolved
C5_Witness ==
    /\ lastCall.op = "advance" /\ lastCall.result
    /\ timeElapsed < MAX_SIMULATION_TIME
    /\ Len(missiles) >= 2

\* target lies on the segment from a to b, a # b
OnSegment(target, a, b) ==
    LET mx == b.x - a.x
        my == b.y - a.y
        tx == target.x - a.x
        ty == target.y - a.y
    IN /\ mx # 0 \/ my # 0
       /\ tx * my - ty * mx = 0
       /\ tx * mx + ty * my >= 0
       /\ tx * mx + ty * my <= mx * mx + my * my

\* C6 as stated: an active missile whose movement in the step, from its position
\* before the position update to its position after it, passes exactly through
\* its target's position is marked 'kill' in that step.
C6_AsStated ==
    lastCall.op = "advance" =>
        \A i \in 1..Len(lastCall.moves) :
            (lastCall.moves[i].active
             /\ OnSegment(lastCall.targets[i], lastCall.moves[i].from,
                          lastCall.moves[i].to))
            => missiles[i].status = "kill"

----------------------------------------------------------------------------
(* Properties of the QuadTree *)

Root == tree[<<>>].bounds

\* the point lies within the root bounds, edges included
WithinRoot(point) ==
    /\ FSub(Root.x, Root.width) <= point.x /\ point.x <= FAdd(Root.x, Root.width)
    /\ FSub(Root.y, Root.height) <= point.y /\ point.y <= FAdd(Root.y, Root.height)

\* the inserts made so far whose point lies within the root bounds
InBoundsInserts ==
    {k \in 1..Len(inserts) : WithinRoot(inserts[k].point)}

\* the nodes that hold the item of insert k
NodesHolding(k) ==
    {path \in DOMAIN tree :
        \E i \in 1..Len(tree[path].items) : tree[path].items[i].data = k}

\* a circle that covers the whole root bounds
CoverCenter == Point(Root.x, Root.y)
CoverRadius == 4 * Root.width

\* C8 as stated: every insert of a point within the root bounds returns true and
\* stores the item in exactly one node, so that after N such inserts queryAll()
\* and a queryRange covering the whole bounds both return exactly N items.
C8_AsStated ==
    /\ \A k \in InBoundsInserts :
          inserts[k].ok /\ Cardinality(NodesHolding(k)) = 1
    /\ Len(QueryAll(tree, <<>>)) = Cardinality(InBoundsInserts)
    /\ Len(QueryRange(tree, <<>>, CoverCenter, CoverRadius))
          = Cardinality(InBoundsInserts)

\* C9: an insert of a point outside the root bounds returns false and leaves
\* the tree unchanged: no item stored, no node subdivided.
C9_OutsideInsertRejected ==
    [][(Len(inserts') = Len(inserts) + 1
        /\ ~WithinRoot(inserts'[Len(inserts')].point))
       => (~inserts'[Len(inserts')].ok /\ tree' = tree)]_vars

\* C9 witness: a point outside the bounds was offered to a full, divided tree
C9_Witness ==
    /\ inserts # <<>>
    /\ ~WithinRoot(inserts[Len(inserts)].point)
    /\ ~inserts[Len(inserts)].ok
    /\ tree[<<>>].divided

QueryCenters ==
    { Point(Root.x, Root.y),
      Point(FRound(Root.x + Root.width \div 2), Root.y), Point(-1, Root.y) }

QueryRadii == { 0, Root.width \div 4, Root.width, 3 * Root.width }

DataOf(items) == {items[i].data : i \in 1..Len(items)}

\* C10: for every tree built by inserts and every query circle, queryRange
\* returns exactly the stored items whose point is at distance <= radius from
\* the center, each of them once.
C10_QueryRangeExact ==
    \A center \in QueryCenters, radius \in QueryRadii :
        LET found == QueryRange(tree, <<>>, center, radius)
            stored == QueryAll(tree, <<>>)
        IN /\ DataOf(found)
                = DataOf(SelectSeq(stored,
                     LAMBDA item : DistanceWithin(item.point, center, radius)))
           /\ Cardinality(DataOf(found)) = Len(found)

\* C10 witness: on a divided tree a query returns some of the stored items and
\* leaves others out, items of child nodes among those returned
C10_Witness ==
    /\ tree[<<>>].divided
    /\ \E center \in QueryCenters, radius \in QueryRadii :
          LET found == QueryRange(tree, <<>>, center, radius)
          IN /\ Len(found) > 0
             /\ Len(found) < Len(QueryAll(tree, <<>>))
             /\ \E i \in 1..Len(found) :
                   \A j \in 1..Len(tree[<<>>].items) :
                       tree[<<>>].items[j].data # found[i].data

----------------------------------------------------------------------------
(* Properties of the precipitation field *)

\* the cells whose in-range predicate holds at the sampled point
CellsInRange ==
    {k \in 1..Len(cells) : IsInRange(cells[k], sample.x, sample.y)}

----------------------------------------------------------------------------
(* Properties of the fighter's methods *)

\* C12: shouldLaunchHARM yields true exactly when the SAM is tracking, the
\* distance is <= the SAM's MEMR and harmRange < the distance; when the SAM is
\* not tracking the result is never true and does not count as a launch.
C12_ShouldLaunchHARM ==
    call.fn = "shouldLaunchHARM" =>
        /\ call.result = "true"
              <=> (call.samTracking /\ call.distanceToSAM <= call.samMEMR
                   /\ call.harmRange < call.distanceToSAM)
        /\ ~call.samTracking => (call.result # "true" /\ ~Truthy(call.result))

\* C12 witness: in range and within MEMR, but the SAM is not tracking
C12_Witness ==
    /\ call.fn = "shouldLaunchHARM"
    /\ ~call.samTracking
    /\ call.distanceToSAM <= call.samMEMR
    /\ call.harmRange < call.distanceToSAM
    /\ call.result = "undefined"

\* the angle reduced to 0..359
Reduced(azimuthDeg) == azimuthDeg % 360

\* C15 as stated: getRCSAtAspect returns the nose RCS in the closed sector
\* [-30, +30] around 0, the tail RCS in the closed sector [150, 210], the side
\* RCS otherwise; 30, 330, 150 and 210 belong to nose and tail.
C15_AsStated ==
    call.fn = "getRCSAtAspect" =>
        LET angle == Reduced(call.azimuthDeg)
        IN call.result =
             IF angle <= 30 \/ angle >= 330 THEN RcsProfile.nose
             ELSE IF angle >= 150 /\ angle <= 210 THEN RcsProfile.tail
             ELSE RcsProfile.side

----------------------------------------------------------------------------
(* Properties of the launch logic *)

MissilesLaunchedBy(ms, who) == {i \in 1..Len(ms) : ms[i].launchedBy = who}

\* C13: at most one missile launched by the fighter is ever appended: the
\* fighter's missilesRemaining starts at 1, drops to 0 on the HARM launch, is
\* never negative, and no HARM is launched while it is 0.
C13_SingleHARM ==
    /\ [](/\ fighterMissilesRemaining \in {0, 1}
          /\ Cardinality(MissilesLaunchedBy(missiles, "fighter"))
                <= 1 - fighterMissilesRemaining)
    /\ [][lastCall'.op = "advance" =>
            /\ Cardinality(MissilesLaunchedBy(missiles', "fighter"))
                 = Cardinality(MissilesLaunchedBy(missiles, "fighter"))
                   + (IF lastCall'.harmLaunched THEN 1 ELSE 0)
            /\ lastCall'.harmLaunched
                 => (fighterMissilesRemaining = 1 /\ fighterMissilesRemaining' = 0)
            /\ ~lastCall'.harmLaunched
                 => fighterMissilesRemaining' = fighterMissilesRemaining]_vars

\* C13 witness: the HARM is in flight and a later step, in which the launch
\* condition holds again, launches nothing
C13_Witness ==
    /\ lastCall.op = "advance"
    /\ lastCall.shouldLaunchHARM
    /\ ~lastCall.harmLaunched
    /\ fighterMissilesRemaining = 0
    /\ MissilesLaunchedBy(missiles, "fighter") # {}

\* the fields of a list entry that are neither its status nor motion fields
SameIdentity(m1, m2) ==
    /\ m1.launchedBy = m2.launchedBy
    /\ m1.timeOfLaunch = m2.timeOfLaunch
    /\ m1.velocity = m2.velocity
    /\ m1.target = m2.target
    /\ m1.maxRange = m2.maxRange
    /\ m1.position = m2.position

\* C14 as stated: across advanceSimulationTimeStep calls the missile list is
\* append-only: its length never decreases, entries keep their order, an
\* entry's launchedBy and timeOfLaunch never change, and only its status, and
\* its motion fields (heading, position) while it is active, are updated.
C14_AsStated ==
    [][lastCall'.op = "advance" =>
          /\ Len(missiles') >= Len(missiles)
          /\ \A i \in 1..Len(missiles) :
                /\ SameIdentity(missiles'[i], missiles[i])
                /\ missiles[i].status # "active" =>
                      /\ missiles'[i] = missiles[i]
                      /\ pos'[missiles[i].position] = pos[missiles[i].position]]_vars

----------------------------------------------------------------------------
(* Properties of getState *)

\* C16: getState changes no simulator state, and the positions of the snapshot
\* are copies: a write to the snapshot changes no simulator state either.
C16_GetStateReadOnly ==
    [][snapshot' # snapshot => UNCHANGED scenarioVars]_vars

\* C16 witness: with missiles in flight a snapshot was taken and its holder
\* moved a position in it, which the simulator's position does not follow
C16_Witness ==
    /\ snapshot.taken /\ snapshot.written
    /\ missiles # <<>>
    /\ polls = MaxPolls
    /\ \/ snapshot.samPosition.x # pos.sam.x
       \/ snapshot.fighterPosition.x # pos.fighter.x

----------------------------------------------------------------------------
(* Properties of Scenario.create *)

\* C17: Scenario.create fails with an error and returns no instance whenever
\* the fighter config or the SAM config cannot be loaded, and it does so before
\* any platform object is constructed.
C17_CreateFailsFast ==
    (call.fn = "create" /\ (call.fighterFile # "valid" \/ call.samFile # "valid")) =>
        /\ call.result.thrown # "none"
        /\ ~call.result.instance
        /\ call.result.constructed = <<>>

\* C17 witness: the fighter config loads and the SAM config does not
C17_Witness ==
    /\ call.fn = "create"
    /\ call.fighterFile = "valid" /\ call.samFile # "valid"
    /\ call.result.thrown = "SAM system config not found"

----------------------------------------------------------------------------
(* Properties of the radar *)

\* C18 as stated: an attenuation lookup on a radar whose ITU table is not
\* loaded fails with a 'not loaded' error that reaches the caller, both for
\* getSpecificAttenuation called directly and for the attenuated detection-range
\* computation that calls it, which returns no range then.
C18_AsStated ==
    /\ (call.fn = "getSpecificAttenuation" /\ call.ituData = "null")
          => call.result.thrown = "ITU data not loaded"
    /\ (call.fn = "calculateDetectionRangeWithPrecipitationFieldSampling"
        /\ call.ituData = "null" /\ call.result.lookups > 0)
          => (call.result.thrown = "ITU data not loaded"
              /\ call.result.range = "none")

(* Properties of the SAM launch logic *)

\* the five launch conditions of a step, read off the state the step starts
\* from; the step's time is timeElapsed after the increment that opens the
\* step, before the clamp to MAX_SIMULATION_TIME that closes it
SamLaunchConditions ==
    /\ IsFighterDetected(scenario, pos)
    /\ samState = "active"
    /\ IsFighterWithinMEMR(scenario, pos)
    /\ samStatus.missilesRemaining > 0
    /\ (timeElapsed + timeStep) - samStatus.lastLaunchTime
           >= scenario.launchIntervalSec

\* C19: in each advanceSimulationTimeStep one missile launched by the SAM is
\* appended if and only if the fighter is detected, the SAM is active, the
\* fighter is within MEMR, the SAM has missiles remaining and the launch
\* interval has elapsed at the step's time; never more than one is appended; on
\* a launch missilesRemaining drops by exactly 1 and lastLaunchTime becomes the
\* step's time, otherwise both are unchanged; missilesRemaining is never
\* negative.
C19_SamLaunchIff ==
    /\ [](samStatus.missilesRemaining >= 0)
    /\ [][lastCall'.op = "advance" =>
            /\ Len(missiles') - Len(missiles) \in {0, 1, 2}
            /\ Cardinality(MissilesLaunchedBy(missiles', "sam"))
                  = Cardinality(MissilesLaunchedBy(missiles, "sam"))
                    + (IF SamLaunchConditions THEN 1 ELSE 0)
            /\ \A i \in 1..Len(missiles) :
                   missiles'[i].launchedBy = missiles[i].launchedBy
            /\ samStatus' =
                  IF SamLaunchConditions
                  THEN [missilesRemaining |-> samStatus.missilesRemaining - 1,
                        lastLaunchTime |-> timeElapsed + timeStep]
                  ELSE samStatus]_vars

\* a second SAM launch, made once the launch interval has elapsed again
C19_Witness ==
    /\ lastCall.op = "advance" /\ lastCall.samLaunched
    /\ Cardinality(MissilesLaunchedBy(missiles, "sam")) = 2
    /\ samStatus.missilesRemaining = 0
    /\ samStatus.lastLaunchTime >= 2 * scenario.launchIntervalSec

(* Properties of completion *)

\* C20 as stated: once a step has returned true and engagementComplete() is
\* true, every further advanceSimulationTimeStep also returns true and leaves
\* engagementComplete() true; only resetScenario makes it false again.
C20_AsStated ==
    [][(isEngagementComplete /\ lastCall'.op = "advance")
          => (lastCall'.result /\ isEngagementComplete')]_vars

(* Properties of resolved missiles *)

\* C21 as stated: a missile whose status is 'kill' or 'missed' keeps that
\* status, its heading and its position through every later
\* advanceSimulationTimeStep.
C21_AsStated ==
    [][lastCall'.op = "advance" =>
          \A i \in 1..Len(missiles) :
             missiles[i].status \in {"kill", "missed"} =>
                /\ missiles'[i].status = missiles[i].status
                /\ missiles'[i].heading = missiles[i].heading
                /\ pos'[missiles'[i].position] = pos[missiles[i].position]]_vars

\* C22 as stated: a missile that is still 'active' after a step has travelled
\* less than its maxRange at that step's time: the first step at which
\* velocity * (timeElapsed - timeOfLaunch) >= maxRange marks it 'missed' unless
\* it registers a kill, so no missile stays active forever.
C22_AsStated ==
    [][lastCall'.op = "advance" =>
          \A i \in 1..Len(missiles') :
             missiles'[i].status = "active" =>
                missiles'[i].velocity
                   * ((timeElapsed + timeStep) - missiles'[i].timeOfLaunch)
                      < missiles'[i].maxRange]_vars

(* Properties of tracking *)

FighterDisplacement(heading) ==
    LET distanceKm == MachToVelocity(scenario.fighterVelocity) * timeStep
    IN Point(RoundDiv(distanceKm * Cos1000(heading), 1000),
             RoundDiv(distanceKm * Sin1000(heading), 1000))

\* C25 as stated: in every step in which the fighter is 'active' its position
\* changes by exactly velocity * timeStep along its heading on both axes, x by
\* d*cos(heading) and y by d*sin(heading); a destroyed fighter is not advanced.
C25_AsStated ==
    [][lastCall'.op = "advance" =>
          pos'.fighter =
             IF fighterState = "active"
             THEN Point(pos.fighter.x + FighterDisplacement(fighterHeading').x,
                        pos.fighter.y + FighterDisplacement(fighterHeading').y)
             ELSE pos.fighter]_vars

(* Properties of the intercept test *)

\* squared distance, times 100, from the target t to the segment the missile
\* travelled from 0 to m (vectors from the previous position), and below it
\* the squared kill radius times 100: (0.02 km)^2 and (0.05 km)^2 in units of
\* 100 m are 0.04 and 0.25.  The perpendicular case is compared cross-multiplied.
WithinKillRadiusOfSegment(t, m, launchedBy) ==
    LET r2x100 == IF launchedBy = "sam" THEN 4 ELSE 25
        dot == t.x * m.x + t.y * m.y
        magM2 == m.x * m.x + m.y * m.y
        cross == t.x * m.y - t.y * m.x
        beyond == Point(t.x - m.x, t.y - m.y)
    IN IF magM2 = 0 \/ dot <= 0 THEN 100 * (t.x * t.x + t.y * t.y) <= r2x100
       ELSE IF dot >= magM2
       THEN 100 * (beyond.x * beyond.x + beyond.y * beyond.y) <= r2x100
       ELSE 100 * cross * cross <= r2x100 * magM2

\* C26 as stated: checkMissileIntercept reports a kill only if the target lies
\* within the kill radius of the segment between the missile's previous and
\* current position; a target near the line but ahead of the current position
\* or behind the previous one is no kill.
C26_AsStated ==
    (call.fn = "checkMissileIntercept" /\ call.result)
        => WithinKillRadiusOfSegment(call.targetPos, call.missilePos, call.launchedBy)

(* Properties of the image coordinates *)

\* the pixel index before any clamping, and the nearest index of 0..size-1
RawPixel(position, grid) ==
    LET originX == IF ~grid.origin.defined THEN 0 ELSE grid.origin.x
        originY == IF ~grid.origin.defined THEN 0 ELSE grid.origin.y
    IN Point((grid.width * grid.resolution) \div 2
                + ((position.x - 2 * originX) * grid.resolution) \div 2,
             (grid.height * grid.resolution) \div 2
                - ((position.y - 2 * originY) * grid.resolution) \div 2)

NearestIndex(i, size) == IF i < 0 THEN 0 ELSE IF i >= size THEN size - 1 ELSE i

\* C27 as stated: worldToImageCoordinates always returns 0 <= ix < width and
\* 0 <= iy < height in pixels, an out-of-range index being replaced by the
\* nearest valid one (0 below the range, the last index above it) and an
\* in-range index returned unchanged.
C27_AsStated ==
    call.fn = "worldToImageCoordinates" =>
        LET raw == RawPixel(call.position, call.grid)
            width == call.grid.width * call.grid.resolution
            height == call.grid.height * call.grid.resolution
        IN /\ call.result.ix = NearestIndex(raw.x, width)
           /\ call.result.iy = NearestIndex(raw.y, height)

(* Properties of the QuadTree structure *)

Quadrants == <<"northeast", "northwest", "southeast", "southwest">>

Children(path) == {Append(path, Quadrants[q]) : q \in 1..4}

\* the point lies within the bounds, edges included
WithinBounds(b, point) ==
    /\ FSub(b.x, b.width) <= point.x /\ point.x <= FAdd(b.x, b.width)
    /\ FSub(b.y, b.height) <= point.y /\ point.y <= FAdd(b.y, b.height)

\* no node holds more than capacity items, a node has no children or all four,
\* and every item lies within the bounds of the node that stores it
QuadTreeShape ==
    \A path \in DOMAIN tree :
       /\ Len(tree[path].items) <= capacity
       /\ IF tree[path].divided
          THEN Children(path) \subseteq DOMAIN tree
          ELSE Children(path) \cap DOMAIN tree = {}
       /\ \A i \in 1..Len(tree[path].items) :
             WithinBounds(tree[path].bounds, tree[path].items[i].point)

\* an item stored in a child lies in no quadrant tried before that child
FirstQuadrantStores ==
    \A path \in DOMAIN tree : \A q \in 1..4 :
       LET child == Append(path, Quadrants[q])
       IN child \in DOMAIN tree =>
             \A i \in 1..Len(tree[child].items) : \A earlier \in 1..(q - 1) :
                ~WithinBounds(tree[Append(path, Quadrants[earlier])].bounds,
                              tree[child].items[i].point)

\* a node created by an insert is the child of a node that was already full
\* and whose bounds contain the inserted point
ChildrenOnlyOfFullNodes ==
    \A child \in (DOMAIN tree') \ (DOMAIN tree) :
       LET parent == SubSeq(child, 1, Len(child) - 1)
       IN /\ parent \in DOMAIN tree
          /\ Len(tree[parent].items) = capacity
          /\ WithinBounds(tree[parent].bounds, inserts'[Len(inserts')].point)

\* C28 as stated: in every reachable QuadTree no node holds more than capacity
\* items, a node has either no children or all four, children are created only
\* when an insert reaches a node that is already full, every stored item lies
\* within its node's bounds, and a point on a boundary shared by several
\* quadrants is stored in the first of NE, NW, SE, SW whose bounds contain it.
C28_AsStated ==
    /\ [](QuadTreeShape /\ FirstQuadrantStores)
    /\ [][ChildrenOnlyOfFullNodes]_vars

(* Properties of position ownership *)

\* C29 as stated: missile motion never moves a platform.  The SAM stays at its
\* scenario position in every reachable state, a step moves the fighter along
\* x by its own displacement only, and no two missiles share a position.
C29_AsStated ==
    /\ [](/\ pos.sam = scenario.samPosition
          /\ \A i, j \in 1..Len(missiles) :
                i # j => missiles[i].position # missiles[j].position)
    /\ [][lastCall'.op = "advance" =>
            pos'.fighter.x = pos.fighter.x
                + (IF fighterState = "active"
                   THEN FighterDisplacement(fighterHeading').x ELSE 0)]_vars

(* Properties of the simulation key *)

\* the request just handled did not carry the controller's simulationKey
Keyless == lastRequest'.simulationKey # controller.simulationKey

\* C30 as stated: once a session is initialized, a request that does not carry
\* the controller's current simulationKey never advances, replaces or resets
\* the simulation, step and
\* run answering such a request with 403; and the key is held by the client
\* that initialized the session and by no other client.
C30_AsStated ==
    /\ [][(requests' = requests + 1 /\ Keyless /\ controller.scenario.defined) =>
            /\ controller'.scenario = controller.scenario
            /\ lastRequest'.op \in {"step", "run"} => lastRequest'.status = 403]_vars
    /\ [](\A c1, c2 \in Clients : (clientHasKey[c1] /\ clientHasKey[c2]) => c1 = c2)

====
